---------------------------- MODULE Spec2Model ----------------------------
(***************************************************************************)
(* A model of volatility/framework/plugins/yarascan.py: the rule compiler  *)
(* (YaraScan.process_yara_options), the scanning callback                  *)
(* (YaraScanner.__call__), the orchestration (YaraScan.scan) and the row   *)
(* projection (YaraScan._generator).                                       *)
(*                                                                         *)
(* Text is a sequence of one-character strings, so that indexing,          *)
(* quoting and suffixing are the operations the code performs.  The yara   *)
(* engine and the resource accessor are external: they are scripted        *)
(* deterministically (EngineAccepts, EngineMatch, ResourceOpens).  The     *)
(* layer's chunked traversal is not part of the plugin file and follows    *)
(* the design document.                                                    *)
(***************************************************************************)
EXTENDS Integers, Sequences, FiniteSets, TLC

VARIABLES
    caller,      \* "plugin" (_generator drives scan), "api" (a direct caller of the classmethods), "none"
    config,      \* the configuration dictionary handed to process_yara_options
    layerName,   \* the layer_name argument of scan
    sections,    \* the sections argument of scan
    layerData,   \* the bytes of the layer
    pc,          \* position of the invocation
    rules,       \* what process_yara_options returned
    raised,      \* the exception that ended the invocation, "none" if none
    log,         \* diagnostics written to vollog
    calls,       \* calls made to the engine's compilers and to the resource accessor
    handle,      \* state of the rule-file handle: "none", "open", "closed"
    layerArgs,   \* the arguments scan gave to layer.scan
    todo,        \* chunks the layer has still to hand to the scanner
    pending,     \* results of the current chunk not yet yielded
    layerOut,    \* what the layer's traversal has yielded
    scanOut,     \* what scan has yielded
    rows,        \* what _generator has yielded
    scanned,     \* number of layer bytes handed to the scanner
    callMatches, \* YaraScanner.__call__: what rules.match(data) reports
    callBase,    \* YaraScanner.__call__: data_offset
    callM,       \* YaraScanner.__call__: index of the current match
    callS,       \* YaraScanner.__call__: index of the current string of the match
    callOut,     \* YaraScanner.__call__: what has been yielded
    callPc       \* YaraScanner.__call__: "idle", "running", "exhausted"

runVars == <<caller, config, layerName, sections, layerData, pc, rules, raised, log,
             calls, handle, layerArgs, todo, pending, layerOut, scanOut, rows, scanned>>
callVars == <<callMatches, callBase, callM, callS, callOut, callPc>>
vars == <<runVars, callVars>>

---------------------------------------------------------------------------
(* Bounds of the model.                                                    *)
MaxPatLen == 3
LayerSize == 3
ChunkSize == 2
MaxSections == 2
MaxMatches == 2
MaxStrings == 2
MaxBase == 2

(* The default of the max_size requirement.                                *)
DefaultMaxSize == 1073741824

---------------------------------------------------------------------------
(* Text.                                                                   *)
Quote == "\""
RulePrefix == <<"r", "u", "l", "e", " ", "r", "1", " ", "{", "s", "t", "r", "i", "n", "g", "s", ":", " ", "$", "a", " ", "=", " ">>
RuleSuffix == <<" ", "c", "o", "n", "d", "i", "t", "i", "o", "n", ":", " ", "$", "a", "}">>
NoCase == <<" ", "n", "o", "c", "a", "s", "e">>
WideAscii == <<" ", "w", "i", "d", "e", " ", "a", "s", "c", "i", "i">>

PatternChars == {"a", "{", "/"}
LayerBytes == {"a", "b"}

SeqsUpTo(S, n) == UNION {[1..k -> S] : k \in 0..n}

Patterns == SeqsUpTo(PatternChars, MaxPatLen)

(* Optional values: a key that is missing, a key set to None, a value.     *)
Absent == [k |-> "absent"]
NoneV == [k |-> "none"]
StrV(s) == [k |-> "val", v |-> s]
BoolV(b) == [k |-> "val", b |-> b]
IntV(n) == [k |-> "val", n |-> n]

(* config.get(key, default)                                                *)
ConfigGet(cfg, key, default) == IF cfg[key].k = "absent" THEN default ELSE cfg[key]

(* Truth value of an optional boolean (None is false).                     *)
Truthy(x) == x.k = "val" /\ x.b

---------------------------------------------------------------------------
(* The external collaborators, scripted.                                   *)
OkUri == "file:///rules.yar"
BadUri == "file:///malformed.yar"
MissingUri == "file:///missing.yar"
RuleFileUris == {OkUri, BadUri, MissingUri}

(* ResourceAccessor().open(uri, "rb") succeeds unless the file is missing. *)
ResourceOpens(uri) == uri # MissingUri

NoRules == [kind |-> "None", text |-> <<>>, uri |-> "", rules |-> <<>>]

FirstIndex(s, c, from) ==
    IF \E i \in from..Len(s) : s[i] = c
    THEN CHOOSE i \in from..Len(s) : s[i] = c /\ \A j \in from..(i - 1) : s[j] # c
    ELSE 0

Modifiers == {<<>>, NoCase, WideAscii, NoCase \o WideAscii}

StartsWith(s, p) == Len(s) >= Len(p) /\ SubSeq(s, 1, Len(p)) = p
EndsWith(s, p) == Len(s) >= Len(p) /\ SubSeq(s, Len(s) - Len(p) + 1, Len(s)) = p

(* The string expression of a single-pattern rule text.                    *)
RuleExpr(text) == SubSeq(text, Len(RulePrefix) + 1, Len(text) - Len(RuleSuffix))

(* How the engine reads a string expression: the delimiter that opens it,  *)
(* the pattern up to the closing delimiter, the modifiers after it.        *)
ParseExpr(e) ==
    LET close == IF e = <<>> THEN "" ELSE IF e[1] = "{" THEN "}" ELSE e[1]
        q == IF e = <<>> THEN 0 ELSE FirstIndex(e, close, 2)
    IN  [open |-> IF e = <<>> THEN "" ELSE e[1],
         closed |-> q > 0,
         pat |-> IF q > 0 THEN SubSeq(e, 2, q - 1) ELSE <<>>,
         mods |-> IF q > 0 THEN SubSeq(e, q + 1, Len(e)) ELSE <<>>]

(* yara.compile(sources = ...) accepts a rule text when it is a rule with  *)
(* one closed, non-empty literal, regular expression or hex string,        *)
(* followed by known modifiers.                                            *)
EngineAccepts(text) ==
    /\ StartsWith(text, RulePrefix)
    /\ EndsWith(text, RuleSuffix)
    /\ Len(text) >= Len(RulePrefix) + Len(RuleSuffix)
    /\ LET p == ParseExpr(RuleExpr(text))
       IN  /\ p.open \in {Quote, "/", "{"}
           /\ p.closed
           /\ p.pat # <<>>
           /\ p.mods \in Modifiers

(* The rule set the engine builds from an accepted single-pattern text.    *)
CompiledSources(text) ==
    [kind |-> "Rules", text |-> text, uri |-> "",
     rules |-> << [name |-> "r1",
                   strings |-> << [id |-> "$a", pat |-> ParseExpr(RuleExpr(text)).pat] >>] >>]

(* The rule set the engine builds from the well-formed rule file.          *)
CompiledFile(uri) ==
    [kind |-> "Rules", text |-> <<>>, uri |-> uri,
     rules |-> << [name |-> "f1",
                   strings |-> << [id |-> "$a", pat |-> <<"a">>],
                                  [id |-> "$b", pat |-> <<"b">>] >>],
                  [name |-> "f2",
                   strings |-> << [id |-> "$x", pat |-> <<"a", "b">>] >>] >>]

(* Offsets (from 0) at which pat occurs in data, ascending.                *)
RECURSIVE OccurrencesFrom(_, _, _)
OccurrencesFrom(pat, data, i) ==
    IF i + Len(pat) > Len(data) THEN <<>>
    ELSE (IF SubSeq(data, i + 1, i + Len(pat)) = pat THEN <<i>> ELSE <<>>)
         \o OccurrencesFrom(pat, data, i + 1)

(* The strings one rule reports on data: (offset, identifier, value) for   *)
(* every occurrence of every string of the rule.                           *)
RECURSIVE RuleStrings(_, _)
RuleStrings(strs, data) ==
    IF strs = <<>> THEN <<>>
    ELSE LET s == Head(strs)
             occ == OccurrencesFrom(s.pat, data, 0)
         IN  [i \in 1..Len(occ) |-> <<occ[i], s.id, s.pat>>] \o RuleStrings(Tail(strs), data)

(* rules.match(data = data): one match per rule that has an occurrence,    *)
(* each match being the sequence of its strings.                           *)
RECURSIVE EngineMatch(_, _)
EngineMatch(ruleSeq, data) ==
    IF ruleSeq = <<>> THEN <<>>
    ELSE LET strs == RuleStrings(Head(ruleSeq).strings, data)
         IN  (IF strs = <<>> THEN <<>> ELSE <<strs>>) \o EngineMatch(Tail(ruleSeq), data)

---------------------------------------------------------------------------
(* YaraScan.process_yara_options                                           *)

(* rule[0]: indexing the empty string raises IndexError.                   *)
FirstCharRaises(rule) == rule = <<>>

(* if rule[0] not in ["{", "/"]: rule = '"{}"'.format(rule)                *)
QuoteRule(rule) == IF rule[1] \notin {"{", "/"} THEN <<Quote>> \o rule \o <<Quote>> ELSE rule

(* if config.get('case', False): rule += " nocase"                         *)
CaseSuffix(cfg) == IF Truthy(ConfigGet(cfg, "case", BoolV(FALSE))) THEN NoCase ELSE <<>>

(* if config.get('wide', False): rule += " wide ascii"                     *)
WideSuffix(cfg) == IF Truthy(ConfigGet(cfg, "wide", BoolV(FALSE))) THEN WideAscii ELSE <<>>

(* 'rule r1 {{strings: $a = {} condition: $a}}'.format(rule)               *)
RuleText(rule) == RulePrefix \o rule \o RuleSuffix

(* The rule file consulted first.                                          *)
SourceChoiceFileFirst(cfg) ==
    IF ConfigGet(cfg, "yara_file", NoneV) # NoneV THEN "yara_file"
    ELSE IF ConfigGet(cfg, "yara_rules", NoneV) # NoneV THEN "yara_rules"
    ELSE "neither"

(* The branch taken: the inline pattern, else the rule file, else neither. *)
SourceChoice(cfg) ==
    IF ConfigGet(cfg, "yara_rules", NoneV) # NoneV THEN "yara_rules"
    ELSE IF ConfigGet(cfg, "yara_file", NoneV) # NoneV THEN "yara_file"
    ELSE "neither"

NoRulesMessage == "No yara rules, nor yara rules file were specified"

Outcome(rs, exc, cs, lg, h) == [rules |-> rs, raised |-> exc, calls |-> cs, log |-> lg, handle |-> h]

CallRec(op, text, uri, result) == [op |-> op, text |-> text, uri |-> uri, result |-> result]

(* A rejected rule text swallowed: no rule set, and no exception.          *)
CompileInlineSwallows(cfg) ==
    LET rule == cfg["yara_rules"].v
    IN  IF FirstCharRaises(rule)
        THEN Outcome(NoRules, "IndexError", <<>>, <<>>, "none")
        ELSE LET text == RuleText(QuoteRule(rule) \o CaseSuffix(cfg) \o WideSuffix(cfg))
             IN  IF EngineAccepts(text)
                 THEN Outcome(CompiledSources(text), "none",
                              <<CallRec("compile_sources", text, "", "ok")>>, <<>>, "none")
                 ELSE Outcome(NoRules, "none",
                              <<CallRec("compile_sources", text, "", "error")>>, <<>>, "none")

(* The branch for yara_rules.                                              *)
CompileInline(cfg) ==
    LET rule == cfg["yara_rules"].v
    IN  IF FirstCharRaises(rule)
        THEN Outcome(NoRules, "IndexError", <<>>, <<>>, "none")
        ELSE LET text == RuleText(QuoteRule(rule) \o CaseSuffix(cfg) \o WideSuffix(cfg))
             IN  IF EngineAccepts(text)
                 THEN Outcome(CompiledSources(text), "none",
                              <<CallRec("compile_sources", text, "", "ok")>>, <<>>, "none")
                 ELSE Outcome(NoRules, "yara.SyntaxError",
                              <<CallRec("compile_sources", text, "", "error")>>, <<>>, "none")

(* The branch for yara_file: the handle the accessor returns is handed to  *)
(* the engine and is not closed by this function.                          *)
CompileFile(cfg) ==
    LET uri == cfg["yara_file"].v
    IN  IF ~ResourceOpens(uri)
        THEN Outcome(NoRules, "ResourceError",
                     <<CallRec("open", <<>>, uri, "error")>>, <<>>, "none")
        ELSE IF uri = BadUri
        THEN Outcome(NoRules, "yara.SyntaxError",
                     <<CallRec("open", <<>>, uri, "ok"), CallRec("compile_file", <<>>, uri, "error")>>,
                     <<>>, "open")
        ELSE Outcome(CompiledFile(uri), "none",
                     <<CallRec("open", <<>>, uri, "ok"), CallRec("compile_file", <<>>, uri, "ok")>>,
                     <<>>, "open")

(* The else branch: vollog.error(...), rules stays None.                   *)
NoSource(cfg) == Outcome(NoRules, "none", <<>>, <<NoRulesMessage>>, "none")

process_yara_options(cfg) ==
    CASE SourceChoice(cfg) = "yara_rules" -> CompileInline(cfg)
      [] SourceChoice(cfg) = "yara_file" -> CompileFile(cfg)
      [] OTHER -> NoSource(cfg)

---------------------------------------------------------------------------
(* YaraScanner                                                             *)

(* YaraScanner(rules = rules)                                              *)
YaraScanner(rs) == [rules |-> rs]

(* The offset left local to the chunk.                                     *)
EmitLocal(str, data_offset) == <<str[1], str[2], str[3]>>

(* yield (offset + data_offset, name, value)                               *)
Emit(str, data_offset) == <<str[1] + data_offset, str[2], str[3]>>

(* The place of the next string at or after string s of match m, in the    *)
(* order of the two nested loops; <<0, 0>> when there is none.             *)
RECURSIVE NextPos(_, _, _)
NextPos(matches, m, s) ==
    IF m > Len(matches) THEN <<0, 0>>
    ELSE IF s <= Len(matches[m]) THEN <<m, s>>
    ELSE NextPos(matches, m + 1, 1)

(* __call__ run to exhaustion, as the layer consumes it.                   *)
RECURSIVE CallRun(_, _, _, _)
CallRun(matches, data_offset, m, s) ==
    LET p == NextPos(matches, m, s)
    IN  IF p = <<0, 0>> THEN <<>>
        ELSE <<Emit(matches[p[1]][p[2]], data_offset)>>
             \o CallRun(matches, data_offset, p[1], p[2] + 1)

ScannerCall(scanner, data, data_offset) ==
    CallRun(EngineMatch(scanner.rules.rules, data), data_offset, 1, 1)

---------------------------------------------------------------------------
(* The layer's scanning entry point, layer.scan(context, scanner,          *)
(* sections): it hands the scanner the listed windows, or the whole        *)
(* addressable range when sections is None, chunk by chunk, and yields     *)
(* what the scanner returns.                                               *)
NoSections == [k |-> "none", s |-> <<>>]
SectionsV(q) == [k |-> "val", s |-> q]

LayerTarget(data, secs) == IF secs.k = "none" THEN << <<0, Len(data)>> >> ELSE secs.s

RECURSIVE ChunksOf(_, _)
ChunksOf(start, length) ==
    IF length <= 0 THEN <<>>
    ELSE IF length <= ChunkSize THEN << <<start, length>> >>
    ELSE << <<start, ChunkSize>> >> \o ChunksOf(start + ChunkSize, length - ChunkSize)

RECURSIVE LayerChunks(_)
LayerChunks(target) ==
    IF target = <<>> THEN <<>>
    ELSE ChunksOf(Head(target)[1], Head(target)[2]) \o LayerChunks(Tail(target))

ChunkData(data, chunk) == SubSeq(data, chunk[1] + 1, chunk[1] + chunk[2])

(* context.layers: the layers of the context.                              *)
ContextLayers == {"primary"}

NoLayerArgs == [k |-> "none"]

---------------------------------------------------------------------------
(* YaraScan.scan and YaraScan._generator                                   *)

(* The sections argument dropped.                                          *)
ScanSectionsDropped(secs) == NoSections

(* The sections scan hands to layer.scan: sections = sections.             *)
ScanSectionsArg(secs) == secs

(* No check for a missing rule set.                                        *)
ScanNeverReturnsEmpty(rs) == FALSE

(* Whether scan returns at once: if rules is None: return                  *)
ScanReturnsEmpty(rs) == rs = NoRules

(* yield from: each value of the layer's traversal is yielded as it is.    *)
ScanYield(m) == m

(* format_hints.Hex(offset): the integer, marked for hexadecimal display.  *)
Hex(n) == [hex |-> n]

(* yield (0, (format_hints.Hex(offset), name, value))                      *)
Row(m) == <<0, <<Hex(m[1]), m[2], m[3]>>>>

(* The sections _generator passes to scan: none (the default, None).       *)
GeneratorSections == NoSections

---------------------------------------------------------------------------
(* Inputs.                                                                 *)
Config(r, f, c, i, w, m) ==
    [yara_rules |-> r, yara_file |-> f, case |-> c, insensitive |-> i, wide |-> w,
     max_size |-> m, primary |-> "primary"]

OptPatterns == {Absent, NoneV} \cup {StrV(p) : p \in Patterns}
OptUris == {Absent, NoneV} \cup {StrV(u) : u \in RuleFileUris}
OptBools == {Absent, BoolV(TRUE), BoolV(FALSE)}
MaxSizes == {IntV(1), IntV(DefaultMaxSize)}

(* Configurations of a plugin run: the modifiers at their defaults.        *)
RunConfigs ==
    {Config(r, f, Absent, BoolV(FALSE), BoolV(FALSE), m) :
        r \in OptPatterns, f \in OptUris, m \in MaxSizes}

(* Configurations of a direct caller of the classmethods.                  *)
ApiConfigs ==
    {Config(r, f, Absent, BoolV(FALSE), BoolV(FALSE), IntV(DefaultMaxSize)) :
        r \in {Absent, NoneV, StrV(<<"a">>)}, f \in {Absent, NoneV, StrV(OkUri)}}

(* Configurations for the compiler: every pattern with every modifier.     *)
CompileConfigs ==
    {Config(r, f, c, BoolV(i), w, IntV(DefaultMaxSize)) :
        r \in OptPatterns, f \in OptUris, c \in OptBools, i \in BOOLEAN, w \in OptBools}

Layers == [1..LayerSize -> LayerBytes]
SampleLayer == [i \in 1..LayerSize |-> IF i % 2 = 1 THEN "a" ELSE "b"]

Windows == {w \in (0..(LayerSize - 1)) \X (1..LayerSize) : w[1] + w[2] <= LayerSize}

(* Ordered, non-overlapping windows.                                       *)
SectionSeqs ==
    {q \in SeqsUpTo(Windows, MaxSections) :
        \A i \in 1..(Len(q) - 1) : q[i][1] + q[i][2] <= q[i + 1][1]}

OptSections == {NoSections} \cup {SectionsV(q) : q \in SectionSeqs}

(* What the engine may report on a chunk: matches, each a sequence of      *)
(* strings (offset, identifier, value).                                    *)
EngineStrings == {<<0, "$a", <<"a">>>>, <<1, "$b", <<"b">>>>, <<2, "$x", <<"a", "b">>>>}
EngineReports == SeqsUpTo(SeqsUpTo(EngineStrings, MaxStrings), MaxMatches)

---------------------------------------------------------------------------
(* Initial states.                                                         *)
RunIdle ==
    /\ pc = "start"
    /\ rules = NoRules
    /\ raised = "none"
    /\ log = <<>>
    /\ calls = <<>>
    /\ handle = "none"
    /\ layerArgs = NoLayerArgs
    /\ todo = <<>>
    /\ pending = <<>>
    /\ layerOut = <<>>
    /\ scanOut = <<>>
    /\ rows = <<>>
    /\ scanned = 0

CallIdle ==
    /\ callMatches = <<>>
    /\ callBase = 0
    /\ callM = 1
    /\ callS = 1
    /\ callOut = <<>>
    /\ callPc = "idle"

(* A plugin run, or a direct caller of process_yara_options and scan.      *)
Init ==
    /\ \/ /\ caller = "plugin"
          /\ config \in RunConfigs
          /\ layerName = "primary"
          /\ sections = GeneratorSections
       \/ /\ caller = "api"
          /\ config \in ApiConfigs
          /\ layerName \in {"primary", "unknown"}
          /\ sections \in OptSections
    /\ layerData \in Layers
    /\ RunIdle
    /\ CallIdle

(* A plugin run over one layer, for every configuration.                   *)
InitCompile ==
    /\ caller = "plugin"
    /\ config \in CompileConfigs
    /\ layerName = "primary"
    /\ sections = GeneratorSections
    /\ layerData = SampleLayer
    /\ RunIdle
    /\ CallIdle

(* One call of the scanner on a chunk.                                     *)
InitCall ==
    /\ caller = "none"
    /\ config = Config(Absent, Absent, Absent, BoolV(FALSE), BoolV(FALSE), IntV(DefaultMaxSize))
    /\ layerName = "primary"
    /\ sections = NoSections
    /\ layerData = SampleLayer
    /\ RunIdle
    /\ callMatches \in EngineReports
    /\ callBase \in 0..MaxBase
    /\ callM = 1
    /\ callS = 1
    /\ callOut = <<>>
    /\ callPc = "running"

---------------------------------------------------------------------------
(* Actions.                                                                *)

(* rules = self.process_yara_options(dict(self.config))                    *)
ProcessYaraOptions ==
    /\ pc = "start"
    /\ LET r == process_yara_options(config)
       IN  /\ rules' = r.rules
           /\ raised' = r.raised
           /\ calls' = r.calls
           /\ log' = r.log
           /\ handle' = r.handle
           /\ pc' = IF r.raised = "none" THEN "compiled" ELSE "raised"
    /\ UNCHANGED <<caller, config, layerName, sections, layerData, layerArgs, todo,
                   pending, layerOut, scanOut, rows, scanned, callVars>>

(* scan, up to the call of layer.scan: nothing to do without rules, else   *)
(* the layer is looked up and its traversal set up with one scanner.       *)
ScanStart ==
    /\ pc = "compiled"
    /\ IF ScanReturnsEmpty(rules)
       THEN /\ pc' = "done"
            /\ UNCHANGED <<raised, layerArgs, todo>>
       ELSE IF layerName \notin ContextLayers
       THEN /\ pc' = "raised"
            /\ raised' = "LayerError"
            /\ UNCHANGED <<layerArgs, todo>>
       ELSE /\ pc' = "scanning"
            /\ layerArgs' = [k |-> "val", scanner |-> YaraScanner(rules),
                             sections |-> ScanSectionsArg(sections)]
            /\ todo' = LayerChunks(LayerTarget(layerData, ScanSectionsArg(sections)))
            /\ UNCHANGED raised
    /\ UNCHANGED <<caller, config, layerName, sections, layerData, rules, log, calls,
                   handle, pending, layerOut, scanOut, rows, scanned, callVars>>

(* The layer hands the next chunk to the scanner.                          *)
LayerNextChunk ==
    /\ pc = "scanning"
    /\ pending = <<>>
    /\ todo # <<>>
    /\ pending' = ScannerCall(layerArgs.scanner, ChunkData(layerData, Head(todo)), Head(todo)[1])
    /\ scanned' = scanned + Head(todo)[2]
    /\ todo' = Tail(todo)
    /\ UNCHANGED <<caller, config, layerName, sections, layerData, pc, rules, raised, log,
                   calls, handle, layerArgs, layerOut, scanOut, rows, callVars>>

(* The layer yields a result; scan yields it; _generator yields its row.   *)
YieldMatch ==
    /\ pc = "scanning"
    /\ pending # <<>>
    /\ layerOut' = Append(layerOut, Head(pending))
    /\ scanOut' = Append(scanOut, ScanYield(Head(pending)))
    /\ rows' = IF caller = "plugin" THEN Append(rows, Row(ScanYield(Head(pending)))) ELSE rows
    /\ pending' = Tail(pending)
    /\ UNCHANGED <<caller, config, layerName, sections, layerData, pc, rules, raised, log,
                   calls, handle, layerArgs, todo, scanned, callVars>>

(* The traversal is exhausted.                                             *)
ScanFinish ==
    /\ pc = "scanning"
    /\ pending = <<>>
    /\ todo = <<>>
    /\ pc' = "done"
    /\ UNCHANGED <<caller, config, layerName, sections, layerData, rules, raised, log,
                   calls, handle, layerArgs, todo, pending, layerOut, scanOut, rows,
                   scanned, callVars>>

(* The consumer abandons the output sequence before it is exhausted.       *)
Abandon ==
    /\ pc = "scanning"
    /\ pc' = "abandoned"
    /\ UNCHANGED <<caller, config, layerName, sections, layerData, rules, raised, log,
                   calls, handle, layerArgs, todo, pending, layerOut, scanOut, rows,
                   scanned, callVars>>

(* The interpreter finalises the unreferenced file object, at a time of    *)
(* its own choosing.                                                       *)
Finalize ==
    /\ pc # "start"
    /\ handle = "open"
    /\ handle' = "closed"
    /\ UNCHANGED <<caller, config, layerName, sections, layerData, pc, rules, raised, log,
                   calls, layerArgs, todo, pending, layerOut, scanOut, rows, scanned,
                   callVars>>

(* __call__ resumed: the loops advance to the next string and yield it.    *)
CallYield ==
    /\ callPc = "running"
    /\ NextPos(callMatches, callM, callS) # <<0, 0>>
    /\ LET p == NextPos(callMatches, callM, callS)
       IN  /\ callOut' = Append(callOut, Emit(callMatches[p[1]][p[2]], callBase))
           /\ callM' = p[1]
           /\ callS' = p[2] + 1
    /\ UNCHANGED <<callMatches, callBase, callPc, runVars>>

(* __call__ resumed with no string left: the generator ends.               *)
CallReturn ==
    /\ callPc = "running"
    /\ NextPos(callMatches, callM, callS) = <<0, 0>>
    /\ callPc' = "exhausted"
    /\ UNCHANGED <<callMatches, callBase, callM, callS, callOut, runVars>>

Next ==
    \/ ProcessYaraOptions
    \/ ScanStart
    \/ LayerNextChunk
    \/ YieldMatch
    \/ ScanFinish
    \/ Abandon
    \/ Finalize

NextCall == CallYield \/ CallReturn

Spec == Init /\ [][Next]_vars
SpecCompile == InitCompile /\ [][Next]_vars
SpecCall == InitCall /\ [][NextCall]_vars

---------------------------------------------------------------------------
(* Properties.                                                             *)

(* Number of places at which sub occurs in s.                              *)
CountOcc(s, sub) ==
    Cardinality({i \in 1..(Len(s) - Len(sub) + 1) : SubSeq(s, i, i + Len(sub) - 1) = sub})

NoCaseWord == <<"n", "o", "c", "a", "s", "e">>
WideWord == <<"w", "i", "d", "e">>
AsciiWord == <<"a", "s", "c", "i", "i">>

IsSet(opt) == opt.k = "val"
Neither(cfg) == ~IsSet(cfg.yara_rules) /\ ~IsSet(cfg.yara_file)
Both(cfg) == IsSet(cfg.yara_rules) /\ IsSet(cfg.yara_file)
Returned == pc # "start"

(* The rule texts handed to the engine's source compiler.                  *)
CompiledTexts == {calls[i].text : i \in {j \in 1..Len(calls) : calls[j].op = "compile_sources"}}

(* The engine's reported strings, match by match, string by string.        *)
RECURSIVE Reported(_)
Reported(matches) == IF matches = <<>> THEN <<>> ELSE Head(matches) \o Reported(Tail(matches))

(* C1: what __call__ has yielded is, at every moment, a prefix of the      *)
(* engine's reported strings in the engine's order, each (L, name, value)  *)
(* turned into (data_offset + L, name, value); once the generator is       *)
(* exhausted there is exactly one output per reported string.              *)
C1_OffsetTranslation ==
    LET rep == Reported(callMatches)
    IN  /\ Len(callOut) <= Len(rep)
        /\ \A i \in 1..Len(callOut) :
               callOut[i] = <<callBase + rep[i][1], rep[i][2], rep[i][3]>>
        /\ callPc = "exhausted" => Len(callOut) = Len(rep)

C1_Witness ==
    /\ callPc = "exhausted"
    /\ callBase > 0
    /\ Len(callMatches) = MaxMatches
    /\ \A m \in 1..Len(callMatches) : Len(callMatches[m]) = MaxStrings
    /\ \E i \in 1..Len(callOut) : callOut[i][1] > callBase
    /\ \E i, j \in 1..Len(callOut) : callOut[i][2] # callOut[j][2]

(* C2: with neither yara_rules nor yara_file set (absent or None),         *)
(* process_yara_options returns no rule set, logs the diagnostic and       *)
(* raises nothing; scan then yields nothing, never reaches the layer and   *)
(* never raises, whatever the layer name and the sections; the invocation  *)
(* can always go on to its end, with no row.                               *)
C2_NoRulesIsEmptyScan ==
    (Neither(config) /\ Returned) =>
        /\ rules = NoRules
        /\ raised = "none"
        /\ log = <<NoRulesMessage>>
        /\ calls = <<>>
        /\ pc \in {"compiled", "done"}
        /\ pc = "compiled" => ENABLED ScanStart
        /\ scanOut = <<>>
        /\ rows = <<>>
        /\ layerArgs = NoLayerArgs
        /\ scanned = 0

C2_Witness ==
    /\ Neither(config)
    /\ pc = "done"
    /\ caller = "plugin"
    /\ rows = <<>>
    /\ log # <<>>
    /\ \E i \in 1..Len(layerData) : layerData[i] = "a"

(* C3 (as claimed): for an inline pattern not starting with "{" or "/",    *)
(* the rule text handed to the compiler contains "nocase" exactly once     *)
(* when insensitive is true, and not at all when it is false.              *)
C3_Claim ==
    \A text \in CompiledTexts :
        (IsSet(config.yara_rules) /\ config.yara_rules.v # <<>>
            /\ config.yara_rules.v[1] \notin {"{", "/"}) =>
            CountOcc(text, NoCaseWord)
                = CountOcc(config.yara_rules.v, NoCaseWord)
                  + (IF config.insensitive = BoolV(TRUE) THEN 1 ELSE 0)

(* C4: with both yara_rules and yara_file set, only the source compiler    *)
(* is called: the rule file is neither opened nor compiled, no handle      *)
(* exists, and the outcome is the outcome for the same configuration       *)
(* without yara_file.                                                      *)
C4_InlineTakesPrecedence ==
    (Both(config) /\ Returned) =>
        /\ \A i \in 1..Len(calls) : calls[i].op = "compile_sources"
        /\ handle = "none"
        /\ LET alone == process_yara_options([config EXCEPT !.yara_file = Absent])
           IN  /\ rules = alone.rules
               /\ raised = alone.raised

C4_Witness ==
    /\ Both(config)
    /\ pc = "compiled"
    /\ rules.kind = "Rules"
    /\ config.yara_file.v = OkUri

InWindow(offset, w) == w[1] <= offset /\ offset < w[1] + w[2]

(* C5: scan hands layer.scan its own sections argument and one scanner     *)
(* bound to the given rule set; it yields what the layer's traversal       *)
(* yields, in the same order; with sections given every yielded offset     *)
(* lies in a listed window; with sections omitted a completed scan has     *)
(* covered the whole layer.                                                *)
C5_SectionsRespected ==
    /\ layerArgs # NoLayerArgs =>
           /\ layerArgs.sections = sections
           /\ layerArgs.scanner = YaraScanner(rules)
    /\ scanOut = layerOut
    /\ sections.k = "val" =>
           \A i \in 1..Len(scanOut) :
               \E j \in 1..Len(sections.s) : InWindow(scanOut[i][1], sections.s[j])
    /\ (sections.k = "none" /\ pc = "done" /\ rules # NoRules) => scanned = Len(layerData)

C5_Witness ==
    /\ caller = "api"
    /\ pc = "done"
    /\ sections.k = "val"
    /\ config.yara_rules = StrV(<<"a">>)
    /\ Len(scanOut) >= 1
    /\ \E o \in 0..(Len(layerData) - 1) :
           /\ layerData[o + 1] = "a"
           /\ \A j \in 1..Len(sections.s) : ~InWindow(o, sections.s[j])

(* C6: once a compiler call or the opening of the rule file has failed,    *)
(* the invocation has ended with that error; no row and no match was       *)
(* yielded and the layer was never reached.                                *)
C6_CompileFailureAborts ==
    (\E i \in 1..Len(calls) : calls[i].result = "error") =>
        /\ pc = "raised"
        /\ raised = (IF calls[Len(calls)].op = "open" THEN "ResourceError" ELSE "yara.SyntaxError")
        /\ calls[Len(calls)].result = "error"
        /\ rules = NoRules
        /\ rows = <<>>
        /\ scanOut = <<>>
        /\ layerArgs = NoLayerArgs
        /\ scanned = 0

C6_Witness ==
    /\ pc = "raised"
    /\ raised = "yara.SyntaxError"
    /\ IsSet(config.yara_rules)
    /\ calls # <<>>
    /\ \E i \in 1..Len(layerData) : layerData[i] = "a"

(* C7 (as claimed): after process_yara_options has been left, by return    *)
(* or by exception, and in particular once consumption is abandoned, no    *)
(* rule-file handle is open.                                               *)
C7_Claim == Returned => handle # "open"

(* Every rule text handed to the source compiler ends with the suffix      *)
(* " wide ascii" (before the condition) and so contains both directives    *)
(* when wide is true, whatever the first character of the pattern; it      *)
(* contains neither directive beyond those of the pattern otherwise.       *)
TextsCarryWide ==
    \A text \in CompiledTexts :
        LET pat == config.yara_rules.v
        IN  IF config.wide = BoolV(TRUE)
            THEN /\ EndsWith(text, WideAscii \o RuleSuffix)
                 /\ CountOcc(text, WideWord) = CountOcc(pat, WideWord) + 1
                 /\ CountOcc(text, AsciiWord) = CountOcc(pat, AsciiWord) + 1
            ELSE /\ CountOcc(text, WideWord) = CountOcc(pat, WideWord)
                 /\ CountOcc(text, AsciiWord) = CountOcc(pat, AsciiWord)

(* C8 (as claimed): for every inline pattern, compiling produces a rule    *)
(* text, and that text carries " wide ascii" when wide is true and no      *)
(* added directive when it is false, whether or not the pattern starts     *)
(* with "{" or "/".                                                        *)
C8_Claim ==
    /\ (IsSet(config.yara_rules) /\ config.wide = BoolV(TRUE) /\ Returned) => CompiledTexts # {}
    /\ TextsCarryWide

(* C9 (as claimed): a plugin run with max_size = M hands at most M bytes   *)
(* of the layer to the scanner.                                            *)
C9_Claim == caller = "plugin" => scanned <= config.max_size.n

Wrapped(p) == IF p # <<>> /\ p[1] \in {"{", "/"} THEN p ELSE <<Quote>> \o p \o <<Quote>>

(* C10 (as claimed): for every inline pattern, the empty one included,     *)
(* process_yara_options makes one call of the source compiler, on the      *)
(* single-string rule whose string is the pattern, quoted unless it        *)
(* starts with "{" or "/", followed by modifiers; and it ends with a rule  *)
(* set or with the engine's compile error.                                 *)
C10_Claim ==
    (IsSet(config.yara_rules) /\ Returned) =>
        /\ Len(calls) = 1
        /\ calls[1].op = "compile_sources"
        /\ \E mods \in Modifiers :
               calls[1].text = RulePrefix \o Wrapped(config.yara_rules.v) \o mods \o RuleSuffix
        /\ \/ rules.kind = "Rules" /\ raised = "none"
           \/ rules = NoRules /\ raised = "yara.SyntaxError"

=============================================================================
